---- MODULE Spec2Model ----
(***************************************************************************)
(* Model of the teleprompter scroll engine of Vlad123321144336/prompter:   *)
(* the App component (play state, elapsed timer refs, command handlers),   *)
(* the TextViewport component (scroll offset, autoscroll tick, fractional  *)
(* accumulator, reached-end signal) and the useGamepad hook (debounce      *)
(* ledger, stick smoothing, per-frame poll).                               *)
(*                                                                         *)
(* Units.  Times are integer milliseconds.  Scroll offsets are integers in *)
(* 1/PX pixel.  The autoscroll accumulator is an integer in 1/ACC_DEN      *)
(* pixel, which makes  linesPerSec * lineHeightPx * deltaSeconds  exact.   *)
(* Stick values and smoothed speeds are integers in 1/MILLI.               *)
(*                                                                         *)
(* React.  A handler or frame callback reads the state of the last render  *)
(* (its closure) and writes state updates that become visible only at the  *)
(* next render.  In the world record the fields isPlaying, speed, ... are  *)
(* the rendered values and nIsPlaying, nSpeed, ... the queued updates.     *)
(* Both frame callbacks of one display frame run in the same task, so no   *)
(* render happens between them; Render runs at the end of each action.     *)
(***************************************************************************)
EXTENDS Integers, Sequences, FiniteSets, TLC

\* ---------------------------------------------------------------- bounds
MaxTime == 500          \* frames are delivered while time <= MaxTime
WallEpoch == 1000       \* Date.now() at time origin (any positive number)
HoldStep == 16          \* frame interval of the stick-hold runs, milliseconds
HoldFrames == 50        \* frames of a stick-hold run

FrameSteps == {150, 250}          \* milliseconds between two display frames
AnomalySteps == {0, 100}          \* how far a frame timestamp falls back
Geometries == {<<398, 300>>, <<300, 300>>}  \* <<scrollHeight, clientHeight>> px

\* ------------------------------------------------------- program constants
Null == -1              \* null / undefined of a number-valued ref
PX == 1000              \* scroll offset units per pixel
MILLI == 1000           \* stick and smoothed-speed units per 1.0
ACC_DEN == 980000       \* accumulator units per pixel: 49 * 2 * 10 * 1000

DEAD_BAND == 1
MIN_SPEED == 1
MAX_SPEED == 50
MIN_FONT_SIZE == 24
DEFAULT_SPEED == 20
DEFAULT_FONT_SIZE == 72

DEADZONE == 150         \* 0.15
DEBOUNCE_TIME == 200
SMOOTH_FACTOR == 9      \* 0.9, in tenths
MANUAL_SCROLL_MIN == 5
MANUAL_SCROLL_MAX == 25

\* BUTTONS, in the order in which poll registers their presses
BUTTON_ORDER == <<"A", "LB", "RB", "DPAD_LEFT", "DPAD_RIGHT", "DPAD_UP", "DPAD_DOWN">>
Buttons == {BUTTON_ORDER[i] : i \in 1..Len(BUTTON_ORDER)}

\* ------------------------------------------------------------------ state
VARIABLES
  time,                    \* milliseconds since the time origin
  isPlaying, speed, fontSizePx,           \* App state (last render)
  elapsedTime, remainingTime, progress,   \* App telemetry state
  startTimeRef, pausedTimeRef, pauseStartRef,   \* App refs
  scrollTop, scrollHeight, clientHeight,  \* the scroll container element
  scrollAccumulatorRef, tickLastTimestampRef,   \* TextViewport refs
  lastPressRef, padLastTimestampRef, smoothedScrollSpeedRef,  \* useGamepad refs
  rafOrder,                \* order of the two pending frame callbacks
  mounted,                 \* App and its children are mounted
  tickPending, pollPending,   \* callbacks of each loop in the browser's frame queue
  tickAnimationFrameRef, pollAnimationFrameRef,   \* the handle each loop keeps
  playedMs,                \* history: time spent Playing since the last reset
  fx                       \* history: what the last action did

vars == <<time, isPlaying, speed, fontSizePx, elapsedTime, remainingTime,
          progress, startTimeRef, pausedTimeRef, pauseStartRef, scrollTop,
          scrollHeight, clientHeight, scrollAccumulatorRef,
          tickLastTimestampRef, lastPressRef, padLastTimestampRef,
          smoothedScrollSpeedRef, rafOrder, mounted, tickPending, pollPending,
          tickAnimationFrameRef, pollAnimationFrameRef, playedMs, fx>>

\* ---------------------------------------------------------------- helpers
Max(a, b) == IF a >= b THEN a ELSE b
Min(a, b) == IF a <= b THEN a ELSE b
Abs(a) == IF a >= 0 THEN a ELSE 0 - a

\* division rounding toward zero
TruncDiv(a, b) == IF a >= 0 THEN a \div b ELSE 0 - ((0 - a) \div b)

clamp(value, min, max) == Min(Max(value, min), max)

\* JavaScript truthiness of a number-or-null ref
Truthy(x) == x # Null /\ x # 0

DateNow(w) == WallEpoch + w.time

\* the largest scroll offset the element accepts, in offset units
ScrollMax(w) == (w.scrollHeight - w.clientHeight) * PX

\* the empty log of an action
NewLog(op, w) ==
  [op |-> op, playing |-> w.isPlaying, order |-> w.rafOrder,
   ts |-> Null, tickLast |-> Null, padLast |-> Null, dt |-> Null,
   autoPx |-> 0, autoMoved |-> 0, tickTop |-> Null, sticks |-> 0, idle |-> 0,
   pressed |-> <<>>, again |-> FALSE, rate |-> Null, held |-> 0,
   dropped |-> Null,
   manual |-> <<>>, manualMoved |-> 0, reachEnd |-> 0, tickReachEnd |-> 0,
   accepted |-> <<>>, rejected |-> {}, events |-> <<>>]

Event(w, e) == [w EXCEPT !.log.events = Append(@, e)]

\* ------------------------------------------------------------- App.tsx
\* the remaining-time value, kept as the operands of
\* remainingScroll / pxPerSec (the eased curve is not rational)
RemainingZero == [scroll |-> 0, speed |-> 0, font |-> 0]

RemainingOf(remainingScroll, s, f) ==
  IF remainingScroll = 0 THEN RemainingZero
  ELSE [scroll |-> remainingScroll, speed |-> s, font |-> f]

handleScrollChange_fullHeight(w) ==
  LET maxScroll == Max(w.scrollHeight * PX, 1 * PX)
      progressPercent == clamp((w.scrollTop * 100) \div (maxScroll \div PX), 0, 100 * MILLI)
      remainingScroll == Max(maxScroll - w.scrollTop, 0)
  IN [w EXCEPT !.nProgress = progressPercent,
               !.nRemainingTime = RemainingOf(remainingScroll, w.speed, w.fontSizePx)]

handleScrollChange(w) ==
  LET maxScroll == Max(ScrollMax(w), 1 * PX)
      progressPercent == clamp((w.scrollTop * 100) \div (maxScroll \div PX), 0, 100 * MILLI)
      remainingScroll == Max(maxScroll - w.scrollTop, 0)
  IN [w EXCEPT !.nProgress = progressPercent,
               !.nRemainingTime = RemainingOf(remainingScroll, w.speed, w.fontSizePx)]

resetTimers(w) ==
  [Event(w, "reset") EXCEPT !.nElapsedTime = 0, !.nRemainingTime = RemainingZero, !.nProgress = 0,
            !.startTimeRef = Null, !.pausedTimeRef = 0, !.pauseStartRef = Null,
            !.nIsPlaying = FALSE, !.playedMs = 0]

handleStart_noPlay(w) ==
  LET w1 == IF ~Truthy(w.startTimeRef)
            THEN [w EXCEPT !.startTimeRef = DateNow(w), !.pausedTimeRef = 0,
                           !.playedMs = 0]
            ELSE w
      w2 == IF Truthy(w1.pauseStartRef)
            THEN [w1 EXCEPT !.pausedTimeRef = @ + (DateNow(w1) - w1.pauseStartRef),
                            !.pauseStartRef = Null]
            ELSE w1
  IN Event(w2, "start")

handleStart(w) ==
  LET w1 == IF ~Truthy(w.startTimeRef)
            THEN [w EXCEPT !.startTimeRef = DateNow(w), !.pausedTimeRef = 0,
                           !.playedMs = 0]
            ELSE w
      w2 == IF Truthy(w1.pauseStartRef)
            THEN [w1 EXCEPT !.pausedTimeRef = @ + (DateNow(w1) - w1.pauseStartRef),
                            !.pauseStartRef = Null]
            ELSE w1
  IN [Event(w2, "start") EXCEPT !.nIsPlaying = TRUE]

handlePause(w) ==
  IF w.isPlaying
  THEN [Event(w, "pause") EXCEPT !.pauseStartRef = DateNow(w), !.nIsPlaying = FALSE]
  ELSE w

handleSpeedChange_unclamped(w, value) ==
  [w EXCEPT !.nSpeed = value]

\* setSpeed(clamp(Math.round(value), MIN_SPEED, MAX_SPEED)); the values of the
\* model are integers
handleSpeedChange(w, value) ==
  [w EXCEPT !.nSpeed = clamp(value, MIN_SPEED, MAX_SPEED)]

onReachEnd_noHalt(w) ==
  [w EXCEPT !.log.reachEnd = @ + 1]

\* onReachEnd={() => { setIsPlaying(false); }}
onReachEnd(w) ==
  [w EXCEPT !.nIsPlaying = FALSE, !.log.reachEnd = @ + 1]

\* ------------------------------------------------------ TextViewport.tsx
\* element.scrollTop = v, element.scrollTo, element.scrollBy: the element
\* keeps its offset inside its scrollable range
setScrollTop_unclamped(w, v) ==
  [w EXCEPT !.scrollTop = v]

setScrollTop(w, v) ==
  [w EXCEPT !.scrollTop = clamp(v, 0, ScrollMax(w))]

notifyScroll_noReachEnd(w) == handleScrollChange(w)

\* onScrollChange(...); if (maxScroll - scrollTop <= DEAD_BAND) onReachEnd()
notifyScroll(w) ==
  LET w1 == handleScrollChange(w)
  IN IF ScrollMax(w1) - w1.scrollTop <= DEAD_BAND * PX
     THEN onReachEnd(w1)
     ELSE w1

scrollToStart(w) == notifyScroll(setScrollTop(w, 0))

scrollToEnd_noNotify(w) == setScrollTop(w, w.scrollHeight * PX)

scrollToEnd(w) == notifyScroll(setScrollTop(w, w.scrollHeight * PX))

manualScroll(w, delta) ==
  LET w1 == setScrollTop(w, w.scrollTop + delta)
      w2 == [w1 EXCEPT !.log.manual = Append(@, delta),
                       !.log.manualMoved = @ + (w1.scrollTop - w.scrollTop)]
  IN notifyScroll(Event(w2, "manual"))

PxRate_falling(s, f) == (49 + 19 * (MAX_SPEED - s)) * f * 13

\* linesPerSec * lineHeightPx, in accumulator units per millisecond
PxRate(s, f) == (49 + 19 * (s - 1)) * f * 13

\* deltaSeconds of a Playing frame, in milliseconds
tickDelta(last, timestamp) ==
  timestamp - (IF last = Null THEN timestamp ELSE last)

wholePixelsOf_round(acc) == (acc + ACC_DEN \div 2) \div ACC_DEN

\* Math.floor(scrollAccumulatorRef.current)
wholePixelsOf(acc) == acc \div ACC_DEN

tickIdle_noRecord(w, timestamp) == w

\* if (!isPlaying) { lastTimestampRef.current = timestamp; ... return; }
tickIdle(w, timestamp) == [w EXCEPT !.tickLastTimestampRef = timestamp]

tick(w, timestamp) ==
  IF ~w.isPlaying
  THEN tickIdle(w, timestamp)
  ELSE
    LET deltaMs == tickDelta(w.tickLastTimestampRef, timestamp)
        acc == w.scrollAccumulatorRef + PxRate(w.speed, w.fontSizePx) * deltaMs
        wholePixels == wholePixelsOf(acc)
        w1 == [w EXCEPT !.tickLastTimestampRef = timestamp,
                        !.scrollAccumulatorRef = acc,
                        !.log.dt = deltaMs,
                        !.log.rate = PxRate(w.speed, w.fontSizePx)]
        w2 == IF wholePixels # 0
              THEN LET m == setScrollTop(w1, w1.scrollTop + wholePixels * PX)
                       n == [m EXCEPT !.scrollAccumulatorRef = @ - wholePixels * ACC_DEN,
                                      !.log.autoPx = wholePixels,
                                      !.log.tickTop = m.scrollTop,
                                      !.log.autoMoved = m.scrollTop - w1.scrollTop]
                   IN notifyScroll(Event(n, "auto"))
              ELSE w1
        w3 == IF w2.scrollTop >= ScrollMax(w2) - DEAD_BAND * PX
              THEN onReachEnd(w2)
              ELSE w2
    IN [w3 EXCEPT !.log.tickReachEnd = w3.log.reachEnd - w.log.reachEnd]


\* animationFrameRef.current = requestAnimationFrame(tick).  A handle is
\* "none" (never assigned), "pending" (its callback is in the frame queue) or
\* "done" (its callback has run or was cancelled).
requestTick(w) ==
  [w EXCEPT !.tickPending = @ + 1, !.tickAnimationFrameRef = "pending"]

\* if (animationFrameRef.current) cancelAnimationFrame(animationFrameRef.current)
cancelTick(w) ==
  IF w.tickAnimationFrameRef = "pending"
  THEN [w EXCEPT !.tickPending = @ - 1, !.tickAnimationFrameRef = "done"]
  ELSE w

tickEffect_noCancel(w) == requestTick(w)

\* the effect on [tick]: the cleanup of the previous run, then the new run
tickEffect(w) == requestTick(cancelTick(w))

\* the browser takes the pending callback off its queue and calls it; tick
\* ends by registering itself again on each of its paths
tickCallback(w, timestamp) ==
  IF w.tickPending = 0 THEN w
  ELSE requestTick(tick([w EXCEPT !.tickPending = @ - 1,
                                  !.tickAnimationFrameRef = "done"], timestamp))

\* ------------------------------------------------------------- App.tsx
maxFontSize(w) == IF w.clientHeight > 0 THEN w.clientHeight \div 3 ELSE 192

handleFontSizeChange(w, value) ==
  [w EXCEPT !.nFontSizePx = clamp(value, MIN_FONT_SIZE, maxFontSize(w))]

handleGoToStart_pauseFirst(w) ==
  IF w.isPlaying THEN handlePause(scrollToStart(w)) ELSE resetTimers(scrollToStart(w))

handleGoToStart(w) == resetTimers(scrollToStart(w))

handleGoToEnd(w) == scrollToEnd(w)

handleManualScroll(w, delta) == manualScroll(w, delta)

handlePauseFromManualScroll(w) ==
  IF w.isPlaying THEN handlePause(Event(w, "forcePause")) ELSE w

onPlayPause(w) == IF w.isPlaying THEN handlePause(w) ELSE handleStart(w)

\* gamepadControls: the command a button is bound to
gamepadControls(w, button) ==
  CASE button = "A" -> onPlayPause(w)
    [] button = "LB" -> handleGoToStart(w)
    [] button = "RB" -> handleGoToEnd(w)
    [] button = "DPAD_LEFT" -> handleSpeedChange(w, w.speed - 1)
    [] button = "DPAD_RIGHT" -> handleSpeedChange(w, w.speed + 1)
    [] button = "DPAD_UP" -> handleFontSizeChange(w, w.fontSizePx + 1)
    [] button = "DPAD_DOWN" -> handleFontSizeChange(w, w.fontSizePx - 1)

\* ---------------------------------------------------------- useGamepad
\* lastPress[index] ?? 0
ledgerLast(entry) == IF entry = Null THEN 0 ELSE entry

registerPress_noStamp(w, index, now) ==
  IF now - ledgerLast(w.lastPressRef[index]) >= DEBOUNCE_TIME
  THEN [w EXCEPT !.buttonsHandled = Append(@, index),
                 !.log.accepted = Append(@, index)]
  ELSE [w EXCEPT !.log.rejected = @ \cup {index}]

registerPress(w, index, now) ==
  IF now - ledgerLast(w.lastPressRef[index]) >= DEBOUNCE_TIME
  THEN [w EXCEPT !.buttonsHandled = Append(@, index),
                 !.lastPressRef[index] = now,
                 !.log.accepted = Append(@, index)]
  ELSE [w EXCEPT !.log.rejected = @ \cup {index}]

RECURSIVE registerPresses(_, _, _, _)
registerPresses(w, pressed, now, i) ==
  IF i > Len(BUTTON_ORDER) THEN w
  ELSE registerPresses(
         IF BUTTON_ORDER[i] \in pressed THEN registerPress(w, BUTTON_ORDER[i], now) ELSE w,
         pressed, now, i + 1)

\* direction * (MIN + (MAX - MIN) * normalized^2), in 1/MILLI
targetSpeedOf(leftStickY) ==
  LET magnitude == Abs(leftStickY)
      direction == IF leftStickY > 0 THEN 1 ELSE -1
      d == magnitude - DEADZONE
      normalizedSq == (MILLI * d * d) \div ((MILLI - DEADZONE) * (MILLI - DEADZONE))
  IN direction * (MANUAL_SCROLL_MIN * MILLI
                  + (MANUAL_SCROLL_MAX - MANUAL_SCROLL_MIN) * normalizedSq)

smoothStep_gain(smoothed, targetSpeed) ==
  TruncDiv(smoothed * SMOOTH_FACTOR + targetSpeed * (10 - SMOOTH_FACTOR) * 2, 10)

\* smoothed * SMOOTH_FACTOR + targetSpeed * (1 - SMOOTH_FACTOR)
smoothStep(smoothed, targetSpeed) ==
  TruncDiv(smoothed * SMOOTH_FACTOR + targetSpeed * (10 - SMOOTH_FACTOR), 10)

\* deltaTime of the sampler, in milliseconds
padDelta(last, timestamp) == IF last # Null THEN timestamp - last ELSE 0

\* smoothed * deltaTime * 50, in offset units
scrollDeltaOf(smoothed, deltaMs) == TruncDiv(smoothed * deltaMs * 50, 1000)

manualDelta_anyInterval(w, smoothed, deltaMs) ==
  IF deltaMs # 0
  THEN handleManualScroll(w, scrollDeltaOf(smoothed, deltaMs))
  ELSE w

\* if (Number.isFinite(scrollDelta) && deltaTime > 0) onManualScroll(scrollDelta);
\* the integers of this model are all finite
manualDelta(w, smoothed, deltaMs) ==
  IF deltaMs > 0
  THEN handleManualScroll(w, scrollDeltaOf(smoothed, deltaMs))
  ELSE w

pollStick_pauseAfter(w, leftStickY, timestamp) ==
  IF Abs(leftStickY) > DEADZONE
  THEN LET w0 == [w EXCEPT !.log.sticks = @ + 1]
           deltaMs == padDelta(w0.padLastTimestampRef, timestamp)
           smoothed == smoothStep(w0.smoothedScrollSpeedRef, targetSpeedOf(leftStickY))
           w2 == manualDelta([w0 EXCEPT !.padLastTimestampRef = timestamp,
                                        !.smoothedScrollSpeedRef = smoothed],
                             smoothed, deltaMs)
       IN IF w2.isPlaying THEN handlePauseFromManualScroll(w2) ELSE w2
  ELSE [w EXCEPT !.smoothedScrollSpeedRef = 0,
                 !.padLastTimestampRef = timestamp,
                 !.log.idle = @ + 1]

pollStick(w, leftStickY, timestamp) ==
  IF Abs(leftStickY) > DEADZONE
  THEN LET w0 == [w EXCEPT !.log.sticks = @ + 1]
           w1 == IF w0.isPlaying THEN handlePauseFromManualScroll(w0) ELSE w0
           deltaMs == padDelta(w1.padLastTimestampRef, timestamp)
           smoothed == smoothStep(w1.smoothedScrollSpeedRef, targetSpeedOf(leftStickY))
           w2 == [w1 EXCEPT !.padLastTimestampRef = timestamp,
                            !.smoothedScrollSpeedRef = smoothed]
       IN manualDelta(w2, smoothed, deltaMs)
  ELSE [w EXCEPT !.smoothedScrollSpeedRef = 0,
                 !.padLastTimestampRef = timestamp,
                 !.log.idle = @ + 1]

pollGamepad(w, gamepad, timestamp) ==
  pollStick(registerPresses([w EXCEPT !.log.pressed = Append(@, gamepad.pressed)],
                            gamepad.pressed, timestamp, 1),
            gamepad.axis, timestamp)

RECURSIVE pollGamepads(_, _, _, _)
pollGamepads(w, gamepads, timestamp, i) ==
  IF i > Len(gamepads) THEN w
  ELSE pollGamepads(pollGamepad(w, gamepads[i], timestamp), gamepads, timestamp, i + 1)

RECURSIVE dispatch(_, _, _)
dispatch(w, queue, i) ==
  IF i > Len(queue) THEN w
  ELSE dispatch(gamepadControls(Event(w, queue[i]), queue[i]), queue, i + 1)

poll_reversedQueue(w, gamepads, timestamp) ==
  LET w0 == [w EXCEPT !.buttonsHandled = <<>>]
      w1 == pollGamepads(w0, gamepads, timestamp, 1)
      n == Len(w1.buttonsHandled)
  IN dispatch(w1, [i \in 1..n |-> w1.buttonsHandled[n + 1 - i]], 1)

poll(w, gamepads, timestamp) ==
  LET w0 == [w EXCEPT !.buttonsHandled = <<>>]
      w1 == pollGamepads(w0, gamepads, timestamp, 1)
  IN dispatch(w1, w1.buttonsHandled, 1)

\* animationFrameRef.current = requestAnimationFrame(poll)
requestPoll(w) ==
  [w EXCEPT !.pollPending = @ + 1, !.pollAnimationFrameRef = "pending"]

\* disconnect()
cancelPoll(w) ==
  IF w.pollAnimationFrameRef = "pending"
  THEN [w EXCEPT !.pollPending = @ - 1, !.pollAnimationFrameRef = "done"]
  ELSE w

\* the effect on [controls]: the cleanup of the previous run, then the new run
pollEffect(w) == requestPoll(cancelPoll(w))

\* the browser takes the pending callback off its queue and calls it; poll
\* ends by registering itself again
pollCallback(w, gamepads, timestamp) ==
  IF w.pollPending = 0 THEN w
  ELSE requestPoll(poll([w EXCEPT !.pollPending = @ - 1,
                                  !.pollAnimationFrameRef = "done"],
                        gamepads, timestamp))

\* ------------------------------------------------------- React rendering
StateChanged(w) ==
  \/ w.nIsPlaying # w.isPlaying
  \/ w.nSpeed # w.speed
  \/ w.nFontSizePx # w.fontSizePx
  \/ w.nElapsedTime # w.elapsedTime
  \/ w.nRemainingTime # w.remainingTime
  \/ w.nProgress # w.progress

\* the gamepadControls memo is recomputed: useGamepad's effect re-runs
ControlsChanged(w) ==
  \/ w.nIsPlaying # w.isPlaying
  \/ w.nSpeed # w.speed
  \/ w.nFontSizePx # w.fontSizePx

\* App's effect on [isPlaying]: refresh the elapsed time when halted
elapsedEffect(w, playingChanged) ==
  IF playingChanged /\ ~w.isPlaying /\ Truthy(w.startTimeRef)
  THEN [w EXCEPT !.nElapsedTime = DateNow(w) - w.startTimeRef - w.pausedTimeRef]
  ELSE w

accumulatorEffect_skipped(w, fontChanged) == w

\* TextViewport's effect on [lineHeightPx]; the log keeps the remainder it
\* discards
accumulatorEffect(w, fontChanged) ==
  IF fontChanged
  THEN [w EXCEPT !.scrollAccumulatorRef = 0,
                 !.log.dropped = w.scrollAccumulatorRef]
  ELSE w

\* one render of App and TextViewport followed by their effects.  The
\* onReachEnd prop is a new function on every render of App, so notifyScroll
\* and tick are new too: the scroll-listener effect calls notifyScroll and the
\* tick effect re-registers tick; useGamepad re-registers poll (after tick,
\* child effects run first) only when gamepadControls changed.
renderOnce(w) ==
  LET playingChanged == w.nIsPlaying # w.isPlaying
      fontChanged == w.nFontSizePx # w.fontSizePx
      w1 == [w EXCEPT !.isPlaying = w.nIsPlaying, !.speed = w.nSpeed,
                      !.fontSizePx = w.nFontSizePx,
                      !.elapsedTime = w.nElapsedTime,
                      !.remainingTime = w.nRemainingTime,
                      !.progress = w.nProgress,
                      !.rafOrder = IF ControlsChanged(w) THEN "tickFirst" ELSE "pollFirst"]
      w2 == tickEffect(notifyScroll(w1))
      w3 == IF ControlsChanged(w) THEN pollEffect(w2) ELSE w2
  IN elapsedEffect(accumulatorEffect(w3, fontChanged), playingChanged)

RECURSIVE Render(_)
Render(w) == IF StateChanged(w) THEN Render(renderOnce(w)) ELSE w


\* ------------------------------------------------------------ the machine
World(op) ==
  LET w == [time |-> time, isPlaying |-> isPlaying, speed |-> speed,
            fontSizePx |-> fontSizePx, elapsedTime |-> elapsedTime,
            remainingTime |-> remainingTime, progress |-> progress,
            nIsPlaying |-> isPlaying, nSpeed |-> speed,
            nFontSizePx |-> fontSizePx, nElapsedTime |-> elapsedTime,
            nRemainingTime |-> remainingTime, nProgress |-> progress,
            startTimeRef |-> startTimeRef, pausedTimeRef |-> pausedTimeRef,
            pauseStartRef |-> pauseStartRef, scrollTop |-> scrollTop,
            scrollHeight |-> scrollHeight, clientHeight |-> clientHeight,
            scrollAccumulatorRef |-> scrollAccumulatorRef,
            tickLastTimestampRef |-> tickLastTimestampRef,
            lastPressRef |-> lastPressRef,
            padLastTimestampRef |-> padLastTimestampRef,
            smoothedScrollSpeedRef |-> smoothedScrollSpeedRef,
            rafOrder |-> rafOrder, mounted |-> mounted,
            tickPending |-> tickPending, pollPending |-> pollPending,
            tickAnimationFrameRef |-> tickAnimationFrameRef,
            pollAnimationFrameRef |-> pollAnimationFrameRef,
            playedMs |-> playedMs,
            buttonsHandled |-> <<>>, log |-> <<>>]
  IN [w EXCEPT !.log = [NewLog(op, w) EXCEPT
                          !.again = (op = "goToStart" /\ fx.op = "goToStart")]]

Commit(w) ==
  /\ time' = w.time
  /\ isPlaying' = w.isPlaying
  /\ speed' = w.speed
  /\ fontSizePx' = w.fontSizePx
  /\ elapsedTime' = w.elapsedTime
  /\ remainingTime' = w.remainingTime
  /\ progress' = w.progress
  /\ startTimeRef' = w.startTimeRef
  /\ pausedTimeRef' = w.pausedTimeRef
  /\ pauseStartRef' = w.pauseStartRef
  /\ scrollTop' = w.scrollTop
  /\ scrollHeight' = w.scrollHeight
  /\ clientHeight' = w.clientHeight
  /\ scrollAccumulatorRef' = w.scrollAccumulatorRef
  /\ tickLastTimestampRef' = w.tickLastTimestampRef
  /\ lastPressRef' = w.lastPressRef
  /\ padLastTimestampRef' = w.padLastTimestampRef
  /\ smoothedScrollSpeedRef' = w.smoothedScrollSpeedRef
  /\ rafOrder' = w.rafOrder
  /\ mounted' = w.mounted
  /\ tickPending' = w.tickPending
  /\ pollPending' = w.pollPending
  /\ tickAnimationFrameRef' = w.tickAnimationFrameRef
  /\ pollAnimationFrameRef' = w.pollAnimationFrameRef
  /\ playedMs' = w.playedMs
  /\ fx' = w.log

\* what navigator.getGamepads() returns in a frame (null entries left out)
Pad(pressed, axis) == [pressed |-> pressed, axis |-> axis]

GamepadInputs ==
  {<<>>}
  \cup {<<Pad(p, a)>> : p \in {{}, {"A"}, {"LB"}, {"RB"}}, a \in {0, MILLI, 0 - MILLI}}
  \cup {<<Pad({}, 100)>>, <<Pad({}, 0 - DEADZONE)>>}
  \cup {<<Pad({}, MILLI), Pad({}, MILLI)>>,
        <<Pad({}, 0), Pad({}, MILLI)>>,
        <<Pad({}, MILLI), Pad({}, 0)>>,
        <<Pad({"A"}, 0), Pad({"A"}, 0)>>,
        <<Pad({"A", "LB"}, MILLI)>>,
        <<Pad({"RB"}, MILLI), Pad({"A"}, 0)>>}

\* the state after mounting: both effects have registered their callback
\* (tick first) and the scroll-listener effect has called notifyScroll
Init ==
  /\ time = 0
  /\ isPlaying = FALSE
  /\ speed = DEFAULT_SPEED
  /\ fontSizePx = DEFAULT_FONT_SIZE
  /\ elapsedTime = 0
  /\ \E g \in Geometries : scrollHeight = g[1] /\ clientHeight = g[2]
  /\ scrollTop = 0
  /\ progress = 0
  /\ remainingTime = RemainingOf(Max((scrollHeight - clientHeight) * PX, PX),
                                 DEFAULT_SPEED, DEFAULT_FONT_SIZE)
  /\ startTimeRef = Null
  /\ pausedTimeRef = 0
  /\ pauseStartRef = Null
  /\ scrollAccumulatorRef = 0
  /\ tickLastTimestampRef = Null
  /\ lastPressRef = [b \in Buttons |-> Null]
  /\ padLastTimestampRef = Null
  /\ smoothedScrollSpeedRef = 0
  /\ rafOrder = "tickFirst"
  /\ mounted = TRUE
  /\ tickPending = 1
  /\ pollPending = 1
  /\ tickAnimationFrameRef = "pending"
  /\ pollAnimationFrameRef = "pending"
  /\ playedMs = 0
  /\ fx = NewLog("mount", [isPlaying |-> FALSE, rafOrder |-> "tickFirst"])

\* both frame callbacks run with the same timestamp, in registration order
runFrame(w, gamepads, timestamp) ==
  LET w0 == [w EXCEPT !.log.ts = timestamp,
                      !.log.tickLast = w.tickLastTimestampRef,
                      !.log.padLast = w.padLastTimestampRef]
  IN IF w.rafOrder = "tickFirst"
     THEN pollCallback(tickCallback(w0, timestamp), gamepads, timestamp)
     ELSE tickCallback(pollCallback(w0, gamepads, timestamp), timestamp)

\* a display frame, step milliseconds after the previous one
Frame(step, gamepads) ==
  /\ time + step <= MaxTime
  /\ LET w == [World("frame") EXCEPT
                 !.time = time + step,
                 !.playedMs = @ + (IF isPlaying /\ mounted THEN step ELSE 0)]
     IN Commit(Render(runFrame(w, gamepads, time + step)))

\* BottomBar: onClick = isPlaying ? onPause : onStart
UIPlayPause ==
  /\ mounted
  /\ LET w == World("playPause")
     IN Commit(Render(IF isPlaying THEN handlePause(w) ELSE handleStart(w)))
  /\ fx'.op = "playPause"

\* BottomBar: onClick = onGoToStart
UIGoToStart ==
  /\ mounted
  /\ Commit(Render(handleGoToStart(World("goToStart"))))
  /\ fx'.op = "goToStart"

\* BottomBar: onClick = onGoToEnd
UIGoToEnd ==
  /\ mounted
  /\ Commit(Render(handleGoToEnd(World("goToEnd"))))
  /\ fx'.op = "goToEnd"

\* the 100 ms interval that refreshes the elapsed time while playing
ElapsedInterval ==
  /\ mounted
  /\ isPlaying
  /\ LET w == World("interval")
     IN Commit(Render(IF Truthy(startTimeRef)
                      THEN [w EXCEPT !.nElapsedTime = DateNow(w) - startTimeRef - pausedTimeRef]
                      ELSE w))

Next ==
  \/ \E step \in FrameSteps, gamepads \in GamepadInputs : Frame(step, gamepads)
  \/ UIPlayPause
  \/ UIGoToStart
  \/ UIGoToEnd
  \/ ElapsedInterval

Spec == Init /\ [][Next]_vars

\* no gamepad, or one gamepad with its stick held at 1.0
AnomalyInputs == {<<>>, <<Pad({}, MILLI)>>}

\* the values the speed slider can deliver (min 1, max 50, step 1)
SpeedInputs == {MIN_SPEED, MIN_SPEED + 1, 35, MAX_SPEED - 1, MAX_SPEED}

\* BottomBar: the speed slider's onChange
UISpeedChange(value) ==
  /\ mounted
  /\ Commit(Render(handleSpeedChange(World("speed"), value)))
  /\ fx'.op = "speed"

\* the arrow keys on the speed slider: steps of 1, of 4 with shift
SpeedKeySteps == {-4, -1, 1, 4}

\* BottomBar: handleSliderKey(event, 1, 4, onSpeedChange); the slider's value
\* is the rendered speed
UISpeedKey(delta) ==
  /\ mounted
  /\ Commit(Render(handleSpeedChange(World("speedKey"), speed + delta)))
  /\ fx'.op = "speedKey"

\* no gamepad, or one gamepad pressing the speed buttons of the D-pad
SpeedPadInputs ==
  {<<>>, <<Pad({"DPAD_LEFT"}, 0)>>, <<Pad({"DPAD_RIGHT"}, 0)>>,
   <<Pad({"DPAD_LEFT", "DPAD_RIGHT"}, 0)>>}

NextSpeed ==
  \/ \E step \in FrameSteps : Frame(step, <<>>)
  \/ UIPlayPause
  \/ UIGoToStart
  \/ \E value \in SpeedInputs : UISpeedChange(value)

\* the machine without a gamepad, with the speed slider
SpecSpeed == Init /\ [][NextSpeed]_vars

\* the values the font slider delivers here (min 24, max maxFontSize)
FontInputs == {MIN_FONT_SIZE, DEFAULT_FONT_SIZE + 8}

\* BottomBar: the font slider's onChange
UIFontSizeChange(value) ==
  /\ mounted
  /\ Commit(Render(handleFontSizeChange(World("font"), value)))
  /\ fx'.op = "font"

\* no gamepad, or one gamepad pressing the font buttons of the D-pad
FontPadInputs == {<<>>, <<Pad({"DPAD_UP"}, 0)>>, <<Pad({"DPAD_DOWN"}, 0)>>}

NextFont ==
  \/ \E step \in FrameSteps, gamepads \in FontPadInputs : Frame(step, gamepads)
  \/ UIPlayPause
  \/ \E value \in FontInputs : UIFontSizeChange(value)

\* the machine with the font slider and the font buttons of a gamepad
SpecFont == Init /\ [][NextFont]_vars

\* the longest interval between two display frames
LongStep == CHOOSE step \in FrameSteps : \A other \in FrameSteps : other <= step

NextSpeedSteps ==
  \/ \E gamepads \in SpeedPadInputs : Frame(LongStep, gamepads)
  \/ UIPlayPause
  \/ \E value \in {MIN_SPEED, MAX_SPEED} : UISpeedChange(value)
  \/ \E delta \in SpeedKeySteps : UISpeedKey(delta)

\* the machine with the speed slider, its keyboard steps and the speed
\* buttons of a gamepad
SpecSpeedSteps == Init /\ [][NextSpeedSteps]_vars

\* one gamepad whose stick is at rest or held at raw 1.0
HoldInputs == {<<Pad({}, 0)>>, <<Pad({}, MILLI)>>}

\* the number of consecutive frames, counted from a smoothed velocity of 0, in
\* which the stick has been sampled at raw 1.0
HeldFrames(gamepads) ==
  IF gamepads # <<Pad({}, MILLI)>> THEN 0
  ELSE IF smoothedScrollSpeedRef = 0 THEN 1
  ELSE IF fx.held > 0 THEN fx.held + 1
  ELSE 0

\* a display frame of a stick-hold run: frames come HoldStep ms apart
HoldFrame(gamepads) ==
  /\ time + HoldStep <= HoldFrames * HoldStep
  /\ LET w == [World("frame") EXCEPT
                 !.time = time + HoldStep,
                 !.log.held = HeldFrames(gamepads),
                 !.playedMs = @ + (IF isPlaying /\ mounted THEN HoldStep ELSE 0)]
     IN Commit(Render(runFrame(w, gamepads, time + HoldStep)))

NextHold == \E gamepads \in HoldInputs : HoldFrame(gamepads)

\* a Stopped machine polled at a fixed frame interval while the stick is held
\* or released
SpecHold == Init /\ [][NextHold]_vars

\* App is unmounted: the cleanups of the tick effect and of useGamepad's
\* effect run
Unmount ==
  /\ mounted
  /\ Commit([cancelPoll(cancelTick(World("unmount"))) EXCEPT !.mounted = FALSE])
  /\ fx'.op = "unmount"

NextLifecycle ==
  \/ \E step \in FrameSteps, gamepads \in AnomalyInputs : Frame(step, gamepads)
  \/ UIPlayPause
  \/ UIGoToStart
  \/ UIGoToEnd
  \/ ElapsedInterval
  \/ Unmount

\* the machine with at most one gamepad, unmounted at any moment; display
\* frames go on after the unmount
SpecLifecycle == Init /\ [][NextLifecycle]_vars

\* a frame whose timestamp is not later than that of the regular frame before
\* it (a clock anomaly of the frame scheduler)
FrameAnomaly(back, gamepads) ==
  /\ fx.op = "frame"
  /\ tickLastTimestampRef = time
  /\ tickLastTimestampRef - back >= 0
  /\ Commit(Render(runFrame(World("anomaly"), gamepads, tickLastTimestampRef - back)))

NextAnomaly ==
  \/ \E step \in FrameSteps, gamepads \in AnomalyInputs : Frame(step, gamepads)
  \/ UIPlayPause
  \/ UIGoToStart
  \/ UIGoToEnd
  \/ ElapsedInterval
  \/ \E back \in AnomalySteps, gamepads \in AnomalyInputs : FrameAnomaly(back, gamepads)

\* the machine with at most one gamepad and with a frame clock that may stall
\* or step back
SpecAnomaly == Init /\ [][NextAnomaly]_vars

\* ------------------------------------------------------------ properties
\* the scrollable range (extent) of the element, in offset units
extent == ScrollMax([scrollHeight |-> scrollHeight, clientHeight |-> clientHeight])

timerRefs == <<startTimeRef, pausedTimeRef, pauseStartRef>>

Range(seq) == {seq[i] : i \in 1..Len(seq)}

\* C1: in a frame in which playback is Playing and the sampler emits a
\* continuous delta, playback ends up not Playing and the autoscroll tick of
\* that frame applies no delta.
C1_ManualPriority ==
  (fx.op = "frame" /\ fx.playing /\ fx.manual # <<>>)
    => (~isPlaying /\ fx.autoPx = 0 /\ fx.autoMoved = 0)

\* C2: the scroll offset always satisfies 0 <= offset <= extent.
C2_OffsetInRange == 0 <= scrollTop /\ scrollTop <= Max(extent, 0)

\* a manual delta was applied and the element clamped it
C2_Witness ==
  /\ Len(fx.manual) = 1
  /\ fx.manualMoved # fx.manual[1]
  /\ scrollTop \in {0, extent}

\* C3: a press is rejected only when the control has a ledger entry less
\* than 200 ms old; the first press of a control without an entry is accepted
\* whatever its timestamp.
C3_FirstPressAccepted ==
  \A b \in fx.rejected :
    lastPressRef[b] # Null /\ fx.ts - lastPressRef[b] < DEBOUNCE_TIME

\* C4: two accepted activations of a control are at least 200 ms apart, an
\* acceptance sets the ledger entry to the frame's timestamp, and a rejected
\* press leaves the ledger unchanged.
C4_DebounceWindow ==
  [][\A b \in Buttons :
       /\ b \in Range(fx'.accepted) =>
            /\ lastPressRef'[b] = fx'.ts
            /\ lastPressRef[b] # Null => fx'.ts - lastPressRef[b] >= DEBOUNCE_TIME
       /\ b \notin Range(fx'.accepted) => lastPressRef'[b] = lastPressRef[b]
       /\ Len(fx'.accepted) = Cardinality(Range(fx'.accepted))]_vars

\* a held button: a press rejected in a frame after the one that accepted it
C4_Witness ==
  /\ "A" \in fx.rejected
  /\ lastPressRef["A"] # Null
  /\ lastPressRef["A"] < fx.ts

\* C5: when an autoscroll frame applies whole pixels that bring the offset
\* to or past the end, the offset is clamped to the end and exactly one
\* reached-end signal is fired by that frame's tick.
C5_OneReachedEnd ==
  (fx.op = "frame" /\ fx.autoPx > 0
     /\ (fx.tickTop - fx.autoMoved) + fx.autoPx * PX >= extent)
    => (fx.tickTop = extent /\ fx.tickReachEnd = 1)

\* C6: after jumpToStart the offset is 0, playback is Stopped, the elapsed
\* timer is cleared and the fractional accumulator is 0.
C6_JumpToStartResets ==
  fx.op = "goToStart"
    => /\ scrollTop = 0
       /\ ~isPlaying
       /\ startTimeRef = Null /\ pausedTimeRef = 0 /\ pauseStartRef = Null
       /\ scrollAccumulatorRef = 0

\* C7 (as claimed): jumpToEnd puts the offset at the end and leaves
\* PlaybackState and the elapsed-timer fields unchanged.
C7_JumpToEndKeepsPlayState ==
  [][fx'.op = "goToEnd"
       => /\ scrollTop' = extent'
          /\ isPlaying' = isPlaying
          /\ timerRefs' = timerRefs]_vars

\* C7 (amended): jumpToEnd puts the offset at the end and leaves the
\* elapsed-timer fields unchanged; playback is not Playing afterwards (a
\* Stopped or Paused state is unchanged, Playing is halted by reached-end).
C7_JumpToEndSeeksAndHalts ==
  [][fx'.op = "goToEnd"
       => /\ scrollTop' = extent'
          /\ ~isPlaying'
          /\ timerRefs' = timerRefs]_vars

\* jumpToEnd was used while Playing
C7_Witness ==
  fx.op = "goToEnd" /\ fx.playing /\ ~isPlaying /\ scrollTop = extent /\ extent > 0

\* C8: every device whose stick is beyond the deadzone in a frame gets its
\* delta applied (when the sampler has a previous, earlier timestamp).
C8_DevicesAdditive ==
  (fx.op = "frame" /\ fx.sticks >= 1 /\ fx.padLast # Null /\ fx.padLast < fx.ts)
    => Len(fx.manual) = fx.sticks

\* C9: the interval of a Playing frame is max(0, timestamp - last), 0 without
\* a previous timestamp, and the tick never moves the offset backwards.
C9_IntervalClamped ==
  (fx.op \in {"frame", "anomaly"} /\ fx.dt # Null)
    => /\ fx.dt = (IF fx.tickLast = Null THEN 0 ELSE Max(0, fx.ts - fx.tickLast))
       /\ fx.autoPx >= 0
       /\ fx.autoMoved >= 0

\* C10: time spent halted is never counted as elapsed: the elapsed time
\* shown never exceeds the time spent Playing since the last reset, and while
\* Playing the timer refs give exactly that time.
C10_ElapsedIsPlayedTime ==
  /\ elapsedTime <= playedMs
  /\ (isPlaying /\ Truthy(startTimeRef))
       => WallEpoch + time - startTimeRef - pausedTimeRef = playedMs

\* C11: in a frame in which a device's stick magnitude is at most 0.15, no
\* delta is emitted for that device, the smoothed velocity is 0 after the
\* frame and the sampler's last timestamp is the frame timestamp.
C11_Deadzone ==
  (fx.op = "frame" /\ fx.idle >= 1)
    => /\ Len(fx.manual) <= fx.sticks
       /\ smoothedScrollSpeedRef = 0
       /\ padLastTimestampRef = fx.ts

\* C12: the sampler applies a continuous delta only over a positive interval:
\* in a frame without a previous sampler timestamp, with a zero-length
\* interval or with a timestamp earlier than the previous one, no manual scroll
\* is applied and the sampler leaves the offset alone.
C12_DeltaNeedsPositiveInterval ==
  (fx.op \in {"frame", "anomaly"} /\ (fx.padLast = Null \/ fx.ts <= fx.padLast))
    => (fx.manual = <<>> /\ fx.manualMoved = 0)

\* a displaced stick polled in a frame whose timestamp stepped back
C12_Witness ==
  /\ fx.op = "anomaly"
  /\ fx.sticks >= 1
  /\ fx.padLast # Null
  /\ fx.ts < fx.padLast
  /\ fx.manual = <<>>

\* the button commands among the events of a frame, in dispatch order
ButtonEvents(events) == SelectSeq(events, LAMBDA e : e \in Buttons)

\* the accepted presses of a frame in device enumeration order and, within a
\* device, in the fixed button order
RECURSIVE QueueOrder(_, _, _, _, _)
QueueOrder(pressed, accepted, d, i, queue) ==
  IF d > Len(pressed) THEN queue
  ELSE IF i > Len(BUTTON_ORDER) THEN QueueOrder(pressed, accepted, d + 1, 1, queue)
  ELSE LET b == BUTTON_ORDER[i]
       IN QueueOrder(pressed, accepted, d, i + 1,
                     IF b \in pressed[d] /\ b \in accepted /\ b \notin Range(queue)
                     THEN Append(queue, b) ELSE queue)

\* C13: within one sampler frame every analog delta is applied before any
\* queued command is dispatched, and the queued commands are dispatched in
\* device enumeration order and then in the fixed button order.
C13_DeltasBeforeCommands ==
  fx.op = "frame" =>
    /\ \A i, j \in 1..Len(fx.events) :
         (fx.events[i] = "manual" /\ fx.events[j] \in Buttons) => i < j
    /\ ButtonEvents(fx.events)
         = QueueOrder(fx.pressed, Range(fx.accepted), 1, 1, <<>>)

\* a frame with an analog delta and two commands of two devices, the later
\* device's button being earlier in the button order
C13_Witness ==
  /\ fx.op = "frame"
  /\ fx.manual # <<>>
  /\ ButtonEvents(fx.events) = <<"RB", "A">>

\* C14: when the sampler applies a manual delta in a frame that began
\* Playing, the forced pause is requested earlier in that frame than the
\* delta is applied.
C14_PauseBeforeDelta ==
  (fx.op = "frame" /\ fx.playing /\ fx.manual # <<>>)
    => \E i \in 1..Len(fx.events) :
         /\ fx.events[i] = "forcePause"
         /\ \A j \in 1..Len(fx.events) : fx.events[j] = "manual" => i < j

\* a Playing frame in which the sampler paused and scrolled
C14_Witness ==
  /\ fx.op = "frame"
  /\ fx.playing
  /\ fx.manualMoved # 0
  /\ "forcePause" \in Range(fx.events)

\* C15: jumpToStart is idempotent: a second call right after the first leaves
\* the scroll state and the playback state as the first call left them, at
\* offset 0 and Stopped.
C15_JumpToStartIdempotent ==
  [][(fx.op = "goToStart" /\ fx'.op = "goToStart")
       => /\ scrollTop' = scrollTop /\ scrollTop' = 0
          /\ scrollAccumulatorRef' = scrollAccumulatorRef
          /\ progress' = progress
          /\ isPlaying' = isPlaying /\ ~isPlaying'
          /\ timerRefs' = timerRefs /\ startTimeRef' = Null]_vars

\* the state after the second of two consecutive jumpToStart calls
C15_Witness ==
  /\ fx.op = "goToStart"
  /\ fx.again
  /\ scrollTop = 0
  /\ ~isPlaying

\* Stopped: no run has been started since the last reset; Paused: a run has
\* been started and playback is not advancing
PlaybackState ==
  IF isPlaying THEN "Playing"
  ELSE IF startTimeRef = Null THEN "Stopped" ELSE "Paused"

\* C16 as stated: PlaybackState changes only by start (Stopped or Paused to
\* Playing), by pause or forced pause (Playing to Paused) and by reset or
\* jump-to-start (any state to Stopped); without a start a Stopped machine
\* stays Stopped and records no pause start.
C16_ListedTransitionsOnly ==
  [][/\ PlaybackState' # PlaybackState
          => \/ PlaybackState' = "Playing" /\ "start" \in Range(fx'.events)
             \/ /\ PlaybackState = "Playing" /\ PlaybackState' = "Paused"
                /\ "pause" \in Range(fx'.events)
             \/ PlaybackState' = "Stopped" /\ "reset" \in Range(fx'.events)
     /\ (PlaybackState = "Stopped" /\ "start" \notin Range(fx'.events))
          => (PlaybackState' = "Stopped" /\ pauseStartRef' = Null)]_vars

\* C16: PlaybackState changes only by start, by pause or forced pause, by
\* reset or jump-to-start, and by a reached-end signal, which halts a Playing
\* machine (also one started in the same step) without recording a pause
\* start; without a start a Stopped machine stays Stopped and records no pause
\* start.
C16_TransitionsWithReachedEnd ==
  [][/\ PlaybackState' # PlaybackState
          => \/ PlaybackState' = "Playing" /\ "start" \in Range(fx'.events)
             \/ /\ PlaybackState = "Playing" /\ PlaybackState' = "Paused"
                /\ "pause" \in Range(fx'.events)
             \/ PlaybackState' = "Stopped" /\ "reset" \in Range(fx'.events)
             \/ /\ PlaybackState' = "Paused" /\ fx'.reachEnd > 0
                /\ (PlaybackState = "Playing" \/ "start" \in Range(fx'.events))
     /\ (PlaybackState = "Stopped" /\ "start" \notin Range(fx'.events))
          => (PlaybackState' = "Stopped" /\ pauseStartRef' = Null)]_vars

\* playback halted by a reached-end signal of an autoscroll frame: not
\* Playing, the run still open, no pause requested
C16_Witness ==
  /\ fx.op = "frame"
  /\ fx.playing
  /\ fx.tickReachEnd > 0
  /\ "pause" \notin Range(fx.events)
  /\ PlaybackState = "Paused"

\* C17: each of the two frame loops has at most one callback pending at any
\* time, whatever frames and re-registrations came before, and after the
\* unmount none is pending, in that state and in every later one.
C17_FrameChains ==
  /\ tickPending <= 1
  /\ pollPending <= 1
  /\ ~mounted => (tickPending = 0 /\ pollPending = 0)

\* a display frame after the unmount of a machine that had run frames and
\* had been started (both effects had re-registered their callback)
C17_Witness ==
  /\ ~mounted
  /\ fx.op = "frame"
  /\ fx.ts # Null
  /\ tickLastTimestampRef # Null
  /\ startTimeRef # Null

\* one line per second at font size f, in the unit of PxRate
LinePerSecond(f) == (ACC_DEN \div (10 * PX)) * 13 * f

\* C18: at a fixed line height the autoscroll velocity does not decrease as
\* the speed level rises from 1 to 50, it is 0.5 lines per second at level 1
\* and 10 lines per second at level 50, and every Playing frame advances at a
\* velocity between the two.
C18_VelocityMonotone ==
  /\ \A s \in MIN_SPEED..(MAX_SPEED - 1) :
       PxRate(s, fontSizePx) <= PxRate(s + 1, fontSizePx)
  /\ 2 * PxRate(MIN_SPEED, fontSizePx) = LinePerSecond(fontSizePx)
  /\ PxRate(MAX_SPEED, fontSizePx) = 10 * LinePerSecond(fontSizePx)
  /\ fx.rate # Null
       => /\ fx.rate = PxRate(speed, fontSizePx)
          /\ PxRate(MIN_SPEED, fontSizePx) <= fx.rate
          /\ fx.rate <= PxRate(MAX_SPEED, fontSizePx)

\* a Playing frame that advanced at the velocity of speed level 50
C18_Witness ==
  /\ fx.op = "frame"
  /\ speed = MAX_SPEED
  /\ fx.rate = PxRate(MAX_SPEED, fontSizePx)
  /\ fx.dt # Null /\ fx.dt > 0
  /\ fx.autoPx > 0

\* the smoothed velocity a stick held at raw 1.0 tends to
HoldTarget == targetSpeedOf(MILLI)

\* C19: with the stick held at raw 1.0 from a smoothed velocity of 0, over
\* frames of a fixed length, the smoothed velocity rises frame by frame toward
\* 25 without exceeding it, and is within 1% of 25 after about 40 frames
\* (from the 44th frame on).
C19_SmoothingConverges ==
  [][fx'.held >= 1
       => /\ HoldTarget = MANUAL_SCROLL_MAX * MILLI
          /\ smoothedScrollSpeedRef' >= smoothedScrollSpeedRef
          /\ smoothedScrollSpeedRef' <= HoldTarget
          /\ fx'.held <= 20 => smoothedScrollSpeedRef' > smoothedScrollSpeedRef
          /\ fx'.held >= 44
               => 100 * (HoldTarget - smoothedScrollSpeedRef') <= HoldTarget]_vars

\* the 44th consecutive frame of a hold: the smoothed velocity is within 1%
\* of 25 and below it
C19_Witness ==
  /\ fx.held = 44
  /\ 100 * (HoldTarget - smoothedScrollSpeedRef) <= HoldTarget
  /\ smoothedScrollSpeedRef < HoldTarget

\* C20: after every scroll notification the progress is within 0..100 percent
\* and equals clamp(offset / max(extent, 1) * 100, 0, 100), the remaining time
\* is not negative, and a zero extent is divided by 1, not by 0.
C20_ProgressClamped ==
  /\ 0 <= progress /\ progress <= 100 * MILLI
  /\ progress = clamp((scrollTop * 100) \div (Max(extent, PX) \div PX), 0, 100 * MILLI)
  /\ extent = 0 => progress = 0
  /\ remainingTime.scroll >= 0
  /\ remainingTime.scroll = Max(Max(extent, PX) - scrollTop, 0)
  /\ remainingTime.scroll > 0 => (remainingTime.speed >= MIN_SPEED /\ remainingTime.font > 0)

\* the notification of an autoscroll frame that reached the end of the content
C20_Witness ==
  /\ fx.op = "frame"
  /\ fx.autoMoved > 0
  /\ extent > 0
  /\ scrollTop = extent
  /\ progress = 100 * MILLI
  /\ remainingTime = RemainingZero

\* C21: in a frame in which a displaced stick is sampled, the interval the
\* sampler uses is 0 or at most the gap to the immediately preceding frame,
\* also when no device was polled in the frames before.
C21_NoCatchUpAfterGap ==
  (fx.op = "frame" /\ fx.sticks >= 1 /\ fx.tickLast # Null)
    => padDelta(fx.padLast, fx.ts) <= fx.ts - fx.tickLast

\* C22: a frame that is not Playing records the frame timestamp and its tick
\* changes neither the offset nor the fractional accumulator; so a Playing
\* frame, the first after a pause included, uses an interval no longer than
\* the gap to the immediately preceding frame.
C22_IdleFrameRecordsTimestamp ==
  [][fx'.op = "frame"
       => /\ ~fx'.playing
               => /\ tickLastTimestampRef' = fx'.ts
                  /\ scrollAccumulatorRef' = scrollAccumulatorRef
                  /\ fx'.dt = Null /\ fx'.autoPx = 0 /\ fx'.autoMoved = 0
          /\ fx'.playing
               => (fx'.dt # Null /\ fx'.dt <= time' - time)]_vars

\* a Playing frame after a pause that lasted longer than the frame's interval
C22_Witness ==
  /\ fx.op = "frame"
  /\ fx.playing
  /\ fx.dt # Null /\ fx.dt > 0
  /\ pausedTimeRef > fx.dt
  /\ fx.autoPx > 0

\* C23: the fractional accumulator is at least 0 and below 1 pixel after
\* every autoscroll frame; the whole pixels a frame takes out plus the
\* accumulator it leaves equal the accumulator it found plus velocity * dt, and
\* while the offset is not clamped at a boundary those whole pixels are what
\* the offset moved by (so the sums over any run of frames agree: no drift).
C23_AccumulatorExact ==
  [][/\ 0 <= scrollAccumulatorRef' /\ scrollAccumulatorRef' < ACC_DEN
     /\ fx'.dt # Null
          => /\ fx'.autoPx * ACC_DEN + scrollAccumulatorRef'
                  = scrollAccumulatorRef + fx'.rate * fx'.dt
             /\ (fx'.tickTop # Null /\ 0 < fx'.tickTop /\ fx'.tickTop < extent)
                  => fx'.autoMoved = fx'.autoPx * PX]_vars

\* a later Playing frame of a run that applied whole pixels, kept a remainder
\* and did not reach the end
C23_Witness ==
  /\ fx.op = "frame"
  /\ fx.dt # Null /\ playedMs > fx.dt
  /\ fx.autoPx > 0
  /\ fx.tickTop < extent
  /\ scrollAccumulatorRef > 0

\* C24: when the tick of an autoscroll frame signals reached-end, playback is
\* halted after the frame and, unless the sampler moved it in the same frame,
\* the offset stays where the tick left it, within the dead band of the end;
\* a frame that begins not Playing applies no autoscroll delta.
C24_ReachedEndHalts ==
  [][fx'.op = "frame"
       => /\ fx'.tickReachEnd > 0
               => /\ ~isPlaying'
                  /\ (fx'.sticks = 0 /\ fx'.accepted = <<>>)
                       => /\ scrollTop' >= extent - DEAD_BAND * PX
                          /\ scrollTop' = (IF fx'.tickTop # Null THEN fx'.tickTop
                                                                 ELSE scrollTop)
          /\ ~isPlaying => (fx'.autoPx = 0 /\ fx'.autoMoved = 0)]_vars

\* an autoscroll frame that ran into the end: halted, offset at the end
C24_Witness ==
  /\ fx.op = "frame"
  /\ fx.playing
  /\ fx.tickReachEnd > 0
  /\ fx.sticks = 0 /\ fx.accepted = <<>>
  /\ fx.autoMoved > 0
  /\ ~isPlaying
  /\ scrollTop = extent

\* C25: after any sequence of speedUp, speedDown, slider changes and keyboard
\* steps of 1 or 4 the speed level is an integer from 1 to 50; speedDown and
\* speedUp step by one and leave the level alone at 1 and at 50; a change of
\* the speed does not change PlaybackState.
C25_SpeedInRange ==
  [][/\ speed' \in MIN_SPEED..MAX_SPEED
     /\ fx'.accepted = <<"DPAD_LEFT">> => speed' = Max(speed - 1, MIN_SPEED)
     /\ fx'.accepted = <<"DPAD_RIGHT">> => speed' = Min(speed + 1, MAX_SPEED)
     /\ fx'.op \in {"speed", "speedKey"} => PlaybackState' = PlaybackState
     /\ (fx'.op = "frame" /\ fx'.accepted # <<>> /\ fx'.tickReachEnd = 0)
          => PlaybackState' = PlaybackState]_vars

\* speedUp of a gamepad at level 50 while Playing: level and state unchanged
C25_Witness ==
  /\ fx.op = "frame"
  /\ fx.accepted = <<"DPAD_RIGHT">>
  /\ speed = MAX_SPEED
  /\ fx.rate = PxRate(MAX_SPEED, fontSizePx)
  /\ isPlaying

\* C26: whenever the font size (hence the line height) changes, the
\* fractional accumulator is 0 when the change has been rendered, before the
\* next frame; and a Playing frame computes its velocity from the font size
\* under which its accumulator was built.
C26_AccumulatorResetOnFontChange ==
  [][/\ fontSizePx' # fontSizePx => scrollAccumulatorRef' = 0
     /\ fx'.dt # Null => fx'.rate = PxRate(speed, fontSizePx)]_vars

\* a font change that discarded a non-zero remainder of a Playing run
C26_Witness ==
  /\ fx.op = "font"
  /\ fx.dropped # Null /\ fx.dropped > 0
  /\ fontSizePx # DEFAULT_FONT_SIZE
  /\ isPlaying
  /\ scrollAccumulatorRef = 0

\* C27: playback is never sustained at the end of the content: no state is
\* Playing with the offset within the 1 px dead band of the end (a zero range
\* included), and a start that leaves the offset there is halted by a
\* reached-end signal in the same step, before any autoscroll delta.
C27_NeverPlayingAtEnd ==
  /\ isPlaying => scrollTop < extent - DEAD_BAND * PX
  /\ ("start" \in Range(fx.events) /\ scrollTop >= extent - DEAD_BAND * PX)
       => (~isPlaying /\ fx.reachEnd > 0 /\ fx.autoPx = 0 /\ fx.autoMoved = 0)

\* a start issued by button A in a frame at the end of the content: halted
C27_Witness ==
  /\ fx.op = "frame"
  /\ "start" \in Range(fx.events)
  /\ extent > 0
  /\ scrollTop = extent
  /\ ~isPlaying
  /\ startTimeRef # Null

TypeOK ==
  /\ isPlaying \in BOOLEAN
  /\ mounted \in BOOLEAN
  /\ tickPending \in Nat /\ pollPending \in Nat
  /\ tickAnimationFrameRef \in {"none", "pending", "done"}
  /\ pollAnimationFrameRef \in {"none", "pending", "done"}
  /\ scrollTop \in Int
  /\ rafOrder \in {"tickFirst", "pollFirst"}

====
